---- MODULE Spec2Model ----
(***************************************************************************)
(* A model of ksau-py's chunked upload: the `upload` command of            *)
(* commands/upload.py (one asyncio Task per file, each running             *)
(* upload_handler -> get_upload_token -> create_upload_session ->          *)
(* compute_local_quickxorhash -> upload_file_in_chunks) and the library    *)
(* function ksau_api.upload_file_in_chunks called directly; and the        *)
(* Graph-client draft commands/retarded_graph.py (upload_async).           *)
(*                                                                         *)
(* One action is one run of a coroutine from one suspension point (await)  *)
(* to the next: asyncio runs that stretch without interleaving.            *)
(* Sizes are scaled: a model "byte" stands for a block of real bytes.      *)
(***************************************************************************)
EXTENDS Integers, Sequences, FiniteSets, TLC

\* ---------------------------------------------------------------- bounds
NumFiles == 2        \* files given to one run of the command
MaxSize == 3         \* largest file size, in model bytes
MaxChunkMb == 2      \* largest --chunk-size value, in model MB
MiB == 1             \* model bytes per MB (1024 * 1024 in the code)
HashBlock == 1       \* model bytes per hashing read (320 * 1024 in the code)
HashWidth == 5       \* bits of the QuickXor accumulator (160 in the library)
HashShift == 2       \* bit shift per input byte (11 in the library)
ByteBits == 2        \* bits per byte (8 in reality)

Files == 1..NumFiles
LibFile == 1         \* the file the direct library call uploads
LibUrl == 0          \* the session URL the direct caller passes in
Urls == 0..NumFiles  \* LibUrl and the URLs the remote may issue

VARIABLES
    mode,          \* "command": the upload command; "library": a direct call of ksau_api.upload_file_in_chunks
    chunk_size_mb, \* the chunk_size argument, shared by the whole batch
    disk,          \* disk[f]: the size of file f on disk (unchanged during the run)
    content,       \* content[f]: the bytes of file f (unchanged during the run)
    remote_path,   \* the remote_path argument, a string of characters
    upload_root_path, \* the upload_root_path of the token response, a string
    pcMain,        \* position of the command: "start", "waiting", "exited", "library"
    exit_code,     \* process exit status, -1 while running
    pc,            \* pc[f]: position of file f's coroutine
    token,         \* token[f]: TRUE once get_upload_token returned a TokenResponse
    upload_url,    \* upload_url[f]: the local upload_url of f's handler, -1 before
    tokenReqs,     \* tokenReqs[f]: GET /token requests made for f
    sessionReqs,   \* sessionReqs[f]: createUploadSession requests made for f
    session_path,  \* session_path[f]: clean_path in the URL of f's last session request
    received,      \* received[u]: the chunk PUTs the remote saw on URL u, in order
    inflight,      \* inflight[f]: PUTs of f sent and not yet answered
    file_size,     \* file_size[f]: local of upload_file_in_chunks (stat at entry)
    fpos,          \* fpos[f]: read position of the open file object
    uploaded,      \* uploaded[f]: local cursor of upload_file_in_chunks
    chunk,         \* chunk[f]: buffer of the PUT in flight
    hash_,         \* hash_[f]: accumulator of the pass in progress
    local_hash,    \* local_hash[f]: result of compute_local_quickxorhash, <<>> before
    progress,      \* progress[f]: values passed to on_progress, in order
    errors,        \* errors[f]: "Error: ..." lines printed for f (kind of error)
    results,       \* results[f]: "Upload completed successfully" reports (digest)
    tokenResp,     \* tokenResp[f]: status the token endpoint answered: "none", "ok", "error"
    sessionResp,   \* sessionResp[f]: status the session endpoint answered
    putResp,       \* putResp[f]: for each answered PUT of f, in order, whether it was 2xx
    gpc,           \* position of retarded_graph.upload_async: "idle", "reading", "joining", "returned"
    gpos,          \* read position of upload_async's file object
    gtasks,        \* the upload_chunk tasks created by upload_async, in order
    gsem           \* value of upload_async's Semaphore(2), -1 before it exists

vars == <<mode, chunk_size_mb, disk, content, remote_path, upload_root_path,
          pcMain, exit_code, pc, token, upload_url,
          tokenReqs, sessionReqs, session_path, received, inflight, file_size, fpos,
          uploaded, chunk, hash_, local_hash, progress, errors, results,
          tokenResp, sessionResp, putResp, gpc, gpos, gtasks, gsem>>

\* ------------------------------------------------------- pure functions
Min(a, b) == IF a <= b THEN a ELSE b

ByteVals == 2 ^ ByteBits

\* The bytes of file f: a fixed content, distinguishable by position.
Content(f, size) == [i \in 1..size |-> (f + 2 * i) % ByteVals]

\* (mutant) a read that gives nothing when fewer than n bytes are left
ReadFullOnly(bytes, p, n) ==
    IF p + n <= Len(bytes) THEN SubSeq(bytes, p + 1, p + n) ELSE <<>>

\* f.read(n) at position p of a file holding `bytes` (n > 0).
Read(bytes, p, n) == SubSeq(bytes, p + 1, Min(p + n, Len(bytes)))

\* chunk_size = chunk_size_mb * 1024 * 1024
ChunkSize(mb) == mb * MiB

\* (mutant) chunk_end without the clamp to file_size
ChunkEndNoClamp(up, cs, fs) == up + cs

\* chunk_end = min(uploaded + chunk_size, file_size)
ChunkEnd(up, cs, fs) == Min(up + cs, fs)

\* (mutant) the range's end written as chunk_end instead of chunk_end - 1
ContentRangeEndExclusive(up, ce, fs, buf) ==
    [start |-> up, end |-> ce, total |-> fs, clen |-> Len(buf)]

\* Content-Range "bytes {uploaded}-{chunk_end - 1}/{file_size}" with Content-Length
ContentRange(up, ce, fs, buf) ==
    [start |-> up, end |-> ce - 1, total |-> fs, clen |-> Len(buf)]

\* round(uploaded / file_size * 100): Python rounds halves to even
Round100(up, fs) ==
    LET q == (100 * up) \div fs
        r == (100 * up) % fs
    IN  IF 2 * r < fs THEN q
        ELSE IF 2 * r > fs THEN q + 1
        ELSE IF q % 2 = 0 THEN q ELSE q + 1

\* quickxorhash(): the empty accumulator (fed: the bytes given to update so
\* far, kept for the properties; the digest does not read it)
HashNew == [data |-> [i \in 0..(HashWidth - 1) |-> 0], n |-> 0, fed |-> <<>>]

Bit(b, k) == (b \div (2 ^ k)) % 2

\* XOR one byte into the accumulator at bit position n * HashShift
HashByte(h, b) ==
    LET at == (h.n * HashShift) % HashWidth
    IN  [data |-> [i \in 0..(HashWidth - 1) |->
                     LET k == (i - at) % HashWidth
                     IN  IF k < ByteBits THEN (h.data[i] + Bit(b, k)) % 2 ELSE h.data[i]],
         n |-> h.n + 1,
         fed |-> Append(h.fed, b)]

RECURSIVE HashUpdate(_, _)
\* hash_.update(chunk): the bytes of the buffer one after the other (g is the
\* accumulator after the first byte)
HashUpdate(h, buf) ==
    IF buf = <<>> THEN h
    ELSE CHOOSE r \in {HashUpdate(g, Tail(buf)) : g \in {HashByte(h, Head(buf))}} : TRUE

\* hash_.digest(): the accumulator with the length XORed into its last bits
HashDigest(h) ==
    [i \in 0..(HashWidth - 1) |->
        IF i >= HashWidth - ByteBits
        THEN (h.data[i] + Bit(h.n, i - (HashWidth - ByteBits))) % 2
        ELSE h.data[i]]

\* base64.b64encode: groups of 6 bits, the last group padded with zeros
B64Groups == (HashWidth + 5) \div 6
B64Encode(d) ==
    [g \in 1..B64Groups |->
        LET bitAt(j) == IF j < HashWidth THEN d[j] ELSE 0
            b(j) == bitAt(6 * (g - 1) + j)
        IN  32 * b(0) + 16 * b(1) + 8 * b(2) + 4 * b(3) + 2 * b(4) + b(5)]

Digest(h) == B64Encode(HashDigest(h))

\* ------------------------------------------------------------- paths
\* Strings are sequences of characters; "/" is the separator and "a" stands
\* for any other character.
RECURSIVE LStrip(_)
LStrip(str) == IF str # <<>> /\ Head(str) = "/" THEN LStrip(Tail(str)) ELSE str

RECURSIVE RStrip(_)
RStrip(str) ==
    IF str # <<>> /\ str[Len(str)] = "/" THEN RStrip(SubSeq(str, 1, Len(str) - 1)) ELSE str

\* str.strip("/")
Strip(str) == RStrip(LStrip(str))

\* new_name = f"{local_file.stem}{local_file.suffix}": the file's name, which
\* holds no separator
FileName(f) == <<"a">>

\* remote_dir = remote_path.strip("/");
\* final_remote_path = f"{remote_dir}/{new_name}" if remote_dir else new_name
FinalRemotePath(rp, name) ==
    LET remote_dir == Strip(rp)
    IN  IF remote_dir # <<>> THEN remote_dir \o <<"/">> \o name ELSE name

\* clean_path = f"{upload_root_path.strip('/')}/{remote_file_path}"
CleanPath(root, remote_file_path) == Strip(root) \o <<"/">> \o remote_file_path

\* the paths of the runs in which the paths are not the subject
DefaultRemotePath == <<"a">>
DefaultRootPath == <<"a">>

\* ------------------------------------------------------------ the state
\* the state of everything but the inputs before the program starts
InitLocals ==
    /\ pcMain = "start"
    /\ exit_code = -1
    /\ pc = [f \in Files |-> "idle"]
    /\ token = [f \in Files |-> FALSE]
    /\ upload_url = [f \in Files |-> -1]
    /\ tokenReqs = [f \in Files |-> 0]
    /\ sessionReqs = [f \in Files |-> 0]
    /\ session_path = [f \in Files |-> <<>>]
    /\ received = [u \in Urls |-> <<>>]
    /\ inflight = [f \in Files |-> {}]
    /\ file_size = [f \in Files |-> 0]
    /\ fpos = [f \in Files |-> 0]
    /\ uploaded = [f \in Files |-> 0]
    /\ chunk = [f \in Files |-> <<>>]
    /\ hash_ = [f \in Files |-> HashNew]
    /\ local_hash = [f \in Files |-> <<>>]
    /\ progress = [f \in Files |-> <<>>]
    /\ errors = [f \in Files |-> <<>>]
    /\ results = [f \in Files |-> <<>>]
    /\ tokenResp = [f \in Files |-> "none"]
    /\ sessionResp = [f \in Files |-> "none"]
    /\ putResp = [f \in Files |-> <<>>]
    /\ gpc = "idle"
    /\ gpos = 0
    /\ gtasks = <<>>
    /\ gsem = -1

Init ==
    /\ mode \in {"command", "library"}
    /\ chunk_size_mb \in 1..MaxChunkMb
    /\ disk \in [Files -> 0..MaxSize]
    /\ mode = "library" => \A f \in Files \ {LibFile} : disk[f] = 0
    /\ content = [f \in Files |-> Content(f, disk[f])]
    /\ remote_path = DefaultRemotePath
    /\ upload_root_path = DefaultRootPath
    /\ InitLocals

graphVars == <<gpc, gpos, gtasks, gsem>>
\* what no step of the upload command or of the library call changes: the
\* inputs, and the state of the Graph-client draft
envVars == <<mode, chunk_size_mb, disk, content, remote_path, upload_root_path, graphVars>>
mainVars == <<pcMain, exit_code>>
reqVars == <<token, tokenReqs, sessionReqs, session_path>>
loopVars == <<file_size, fpos, uploaded, chunk, hash_, local_hash, progress>>
respVars == <<tokenResp, sessionResp, putResp>>

Finished(f) == pc[f] \in {"done", "failed", "cancelled"}

\* ------------------------------------------------- the upload command
\* upload(): one Task per file, then await wait(tasks).  The tasks' first steps
\* run in the loop iteration that follows, each up to the await of its GET /token
\* in get_upload_token; nothing else is runnable in between.
\* (mutant) a dispatcher with a limit of one: only the first file's task is
\* started
UploadOneAtATime ==
    /\ mode = "command"
    /\ pcMain = "start"
    /\ pcMain' = "waiting"
    /\ tokenReqs' = [f \in Files |-> IF f = 1 THEN tokenReqs[f] + 1 ELSE tokenReqs[f]]
    /\ pc' = [f \in Files |-> IF f = 1 THEN "token_wait" ELSE "idle"]
    /\ UNCHANGED <<envVars, exit_code, token, sessionReqs, session_path, upload_url,
                   received, inflight, loopVars, errors, results, respVars>>

Upload ==
    /\ mode = "command"
    /\ pcMain = "start"
    /\ pcMain' = "waiting"
    /\ tokenReqs' = [f \in Files |-> tokenReqs[f] + 1]
    /\ pc' = [f \in Files |-> "token_wait"]
    /\ UNCHANGED <<envVars, exit_code, token, sessionReqs, session_path, upload_url,
                   received, inflight, loopVars, errors, results, respVars>>

\* wait(tasks) returns once every task is done; it never raises a task's
\* exception, so upload() returns None and the process exits with status 0
\* (mutant) wait(tasks, return_when=FIRST_COMPLETED)
WaitReturnsFirstCompleted ==
    /\ pcMain = "waiting"
    /\ \E f \in Files : Finished(f)
    /\ pcMain' = "exited"
    /\ exit_code' = 0
    /\ UNCHANGED <<envVars, pc, reqVars, upload_url, received, inflight,
                   loopVars, errors, results, respVars>>

WaitReturns ==
    /\ pcMain = "waiting"
    /\ \A f \in Files : Finished(f)
    /\ pcMain' = "exited"
    /\ exit_code' = 0
    /\ UNCHANGED <<envVars, pc, reqVars, upload_url, received, inflight,
                   loopVars, errors, results, respVars>>

\* (mutant) a failing task cancels the tasks that are still running
RaiseCancelsSiblings(f, kind) ==
    /\ errors' = [errors EXCEPT ![f] = Append(@, kind)]
    /\ pc' = [g \in Files |-> IF g = f THEN "failed"
                              ELSE IF Finished(g) THEN pc[g] ELSE "cancelled"]
    /\ UNCHANGED <<envVars, mainVars, reqVars, upload_url, received, loopVars, results>>

\* except Exception as e: print "Error: {e}"; raise click.Abort from e.
\* The task ends with the exception; no other task is touched.
Raise(f, kind) ==
    /\ errors' = [errors EXCEPT ![f] = Append(@, kind)]
    /\ pc' = [pc EXCEPT ![f] = "failed"]
    /\ UNCHANGED <<envVars, mainVars, reqVars, upload_url, received, loopVars, results>>

\* TokenResponse(**data) returned; the handler goes on to create_upload_session,
\* which sends the POST
TokenOk(f) ==
    /\ token' = [token EXCEPT ![f] = TRUE]
    /\ sessionReqs' = [sessionReqs EXCEPT ![f] = @ + 1]
    /\ session_path' = [session_path EXCEPT
                          ![f] = CleanPath(upload_root_path,
                                           FinalRemotePath(remote_path, FileName(f)))]
    /\ pc' = [pc EXCEPT ![f] = "session_wait"]
    /\ UNCHANGED <<envVars, mainVars, tokenReqs, upload_url, received,
                   inflight, loopVars, errors, results>>

\* (mutant) the status of the token response is not looked at
TokenFailedIgnored(f) == TokenOk(f)

\* if not response.ok: raise RuntimeError("Failed to get upload token")
TokenFailed(f) ==
    /\ Raise(f, "token")
    /\ UNCHANGED inflight

\* the token endpoint answers f's GET
TokenResponse(f) ==
    /\ pc[f] = "token_wait"
    /\ \E ok \in BOOLEAN :
         /\ tokenResp' = [tokenResp EXCEPT ![f] = IF ok THEN "ok" ELSE "error"]
         /\ IF ok THEN TokenOk(f) ELSE TokenFailed(f)
    /\ UNCHANGED <<sessionResp, putResp>>

\* (mutant) the status of the createUploadSession response is not looked at:
\* the handler goes on as after a created session
SessionFailedIgnored(f) ==
    /\ upload_url' = [upload_url EXCEPT ![f] = f]
    /\ hash_' = [hash_ EXCEPT ![f] = HashNew]
    /\ fpos' = [fpos EXCEPT ![f] = 0]
    /\ pc' = [pc EXCEPT ![f] = "hash_read"]
    /\ UNCHANGED <<envVars, mainVars, reqVars, received, inflight,
                   file_size, uploaded, chunk, local_hash, progress, errors, results>>

\* if not response.ok: raise RuntimeError("Failed to create upload session")
SessionFailed(f) ==
    /\ Raise(f, "session")
    /\ UNCHANGED inflight

\* the uploadUrl of the session the remote creates for f's POST: the remote
\* issues a new URL for every session, named here after the file it is for
NewSessionUrl(f) == f

\* return data["uploadUrl"].  The handler keeps it in its local upload_url, adds
\* the progress tasks and enters compute_local_quickxorhash (first read awaited).
SessionOk(f) ==
    /\ upload_url' = [upload_url EXCEPT ![f] = NewSessionUrl(f)]
    /\ hash_' = [hash_ EXCEPT ![f] = HashNew]
    /\ fpos' = [fpos EXCEPT ![f] = 0]
    /\ pc' = [pc EXCEPT ![f] = "hash_read"]
    /\ UNCHANGED <<envVars, mainVars, reqVars, received, inflight,
                   file_size, uploaded, chunk, local_hash, progress, errors, results>>

\* the Graph endpoint answers f's createUploadSession POST
SessionResponse(f) ==
    /\ pc[f] = "session_wait"
    /\ \E ok \in BOOLEAN :
         /\ sessionResp' = [sessionResp EXCEPT ![f] = IF ok THEN "ok" ELSE "error"]
         /\ IF ok THEN SessionOk(f) ELSE SessionFailed(f)
    /\ UNCHANGED <<tokenResp, putResp>>

RECURSIVE HashPass(_, _, _)
\* compute_local_quickxorhash: while chunk := await f.read(320 * 1024):
\* hash_.update(chunk) -- the accumulator after the whole pass from position p
HashPass(h, bytes, p) ==
    LET buf == Read(bytes, p, HashBlock)
    IN  IF buf = <<>> THEN h ELSE HashPass(HashUpdate(h, buf), bytes, p + Len(buf))

\* The hashing pass over the file (its reads touch nothing but the file and
\* the accumulator, so the pass is one step here): the digest is returned and
\* printed, and the handler enters upload_file_in_chunks: stat, uploaded = 0,
\* a new accumulator, the file opened again, the first read awaited.
ComputeLocalHash(f) ==
    /\ pc[f] = "hash_read"
    /\ local_hash' = [local_hash EXCEPT
                        ![f] = Digest(HashPass(hash_[f], content[f], fpos[f]))]
    /\ file_size' = [file_size EXCEPT ![f] = disk[f]]
    /\ uploaded' = [uploaded EXCEPT ![f] = 0]
    /\ hash_' = [hash_ EXCEPT ![f] = HashNew]
    /\ fpos' = [fpos EXCEPT ![f] = 0]
    /\ pc' = [pc EXCEPT ![f] = "read"]
    /\ UNCHANGED <<envVars, mainVars, reqVars, upload_url, received, inflight, chunk,
                   progress, errors, results, respVars>>

\* (mutant) the session URL kept in one place shared by all handlers, which
\* holds the URL of one of the sessions created so far
SharedSessionUrl(f) ==
    CHOOSE u \in {upload_url[g] : g \in Files} \ {-1} :
        \A v \in {upload_url[g] : g \in Files} \ {-1} : u <= v

\* the upload_url argument of upload_file_in_chunks: the handler's own local
SessionUrl(f) == upload_url[f]

\* the range of the chunk f is sending or waiting on
Pending(f) ==
    ContentRange(uploaded[f], ChunkEnd(uploaded[f], ChunkSize(chunk_size_mb), file_size[f]),
                 file_size[f], chunk[f])

\* (mutant) the PUT is issued and not awaited: the cursor moves on at once
SendChunkNoWait(f, buf) ==
    LET ce == ChunkEnd(uploaded[f], ChunkSize(chunk_size_mb), file_size[f])
        r == ContentRange(uploaded[f], ce, file_size[f], buf)
    IN  /\ chunk' = [chunk EXCEPT ![f] = buf]
        /\ received' = [received EXCEPT ![upload_url[f]] = Append(@, [file |-> f, range |-> r])]
        /\ inflight' = [inflight EXCEPT ![f] = @ \cup {r}]
        /\ uploaded' = [uploaded EXCEPT ![f] = ce]
        /\ pc' = [pc EXCEPT ![f] = "read"]
        /\ UNCHANGED <<envVars, mainVars, reqVars, upload_url, file_size, hash_,
                       local_hash, progress, errors, results>>

\* session.put(upload_url, headers={Content-Range, Content-Length}, data=chunk):
\* the request leaves and the coroutine waits for the response
SendChunk(f, buf) ==
    LET r == ContentRange(uploaded[f], ChunkEnd(uploaded[f], ChunkSize(chunk_size_mb),
                                                file_size[f]), file_size[f], buf)
    IN  /\ chunk' = [chunk EXCEPT ![f] = buf]
        /\ received' = [received EXCEPT ![SessionUrl(f)] = Append(@, [file |-> f, range |-> r])]
        /\ inflight' = [inflight EXCEPT ![f] = @ \cup {r}]
        /\ pc' = [pc EXCEPT ![f] = "put_wait"]
        /\ UNCHANGED <<envVars, mainVars, reqVars, upload_url, file_size, uploaded, hash_,
                       local_hash, progress, errors, results>>

\* return base64.b64encode(hash_.digest()); the handler prints
\* "Upload completed successfully", the digest and the download URL
Completed(f) ==
    /\ results' = [results EXCEPT ![f] = Append(@, Digest(hash_[f]))]
    /\ pc' = [pc EXCEPT ![f] = "done"]
    /\ UNCHANGED <<envVars, mainVars, reqVars, upload_url, received, inflight, file_size,
                   uploaded, chunk, hash_, local_hash, progress, errors>>

\* while chunk := await f.read(chunk_size)
ReadChunk(f) ==
    /\ pc[f] = "read"
    /\ LET buf == Read(content[f], fpos[f], ChunkSize(chunk_size_mb))
       IN  IF buf # <<>>
           THEN /\ fpos' = [fpos EXCEPT ![f] = @ + Len(buf)]
                /\ SendChunk(f, buf)
           ELSE /\ UNCHANGED fpos
                /\ Completed(f)
    /\ UNCHANGED respVars

\* (mutant) a failed PUT is swallowed and the loop goes on
ChunkFailedContinue(f) ==
    /\ inflight' = [inflight EXCEPT ![f] = @ \ {Pending(f)}]
    /\ pc' = [pc EXCEPT ![f] = "read"]
    /\ UNCHANGED <<envVars, mainVars, reqVars, upload_url, received, loopVars, errors, results>>

\* (mutant) on_progress is called before the response status is looked at
ChunkFailedAfterProgress(f) ==
    /\ errors' = [errors EXCEPT ![f] = Append(@, "chunk")]
    /\ pc' = [pc EXCEPT ![f] = "failed"]
    /\ progress' = [progress EXCEPT
                      ![f] = Append(@, Round100(ChunkEnd(uploaded[f], ChunkSize(chunk_size_mb),
                                                         file_size[f]), file_size[f]))]
    /\ inflight' = [inflight EXCEPT ![f] = @ \ {Pending(f)}]
    /\ UNCHANGED <<envVars, mainVars, reqVars, upload_url, received, file_size, fpos,
                   uploaded, chunk, hash_, local_hash, results>>

\* (mutant) hash_.update(chunk) is done before the response status is looked at
ChunkFailedAfterHash(f) ==
    /\ errors' = [errors EXCEPT ![f] = Append(@, "chunk")]
    /\ pc' = [pc EXCEPT ![f] = "failed"]
    /\ hash_' = [hash_ EXCEPT ![f] = HashUpdate(@, chunk[f])]
    /\ inflight' = [inflight EXCEPT ![f] = @ \ {Pending(f)}]
    /\ UNCHANGED <<envVars, mainVars, reqVars, upload_url, received, file_size, fpos,
                   uploaded, chunk, local_hash, progress, results>>

\* if not response.ok: raise click.Abort(msg), caught by the handler
ChunkFailed(f) ==
    /\ Raise(f, "chunk")
    /\ inflight' = [inflight EXCEPT ![f] = @ \ {Pending(f)}]

\* (mutant) the acknowledged chunk is not given to the accumulator
ChunkAckedNoHash(f) ==
    LET ce == ChunkEnd(uploaded[f], ChunkSize(chunk_size_mb), file_size[f])
    IN  /\ uploaded' = [uploaded EXCEPT ![f] = ce]
        /\ progress' = [progress EXCEPT ![f] = Append(@, Round100(ce, file_size[f]))]
        /\ inflight' = [inflight EXCEPT ![f] = @ \ {Pending(f)}]
        /\ pc' = [pc EXCEPT ![f] = "read"]
        /\ UNCHANGED <<envVars, mainVars, reqVars, upload_url, received, file_size, fpos,
                       chunk, hash_, local_hash, errors, results>>

\* hash_.update(chunk); uploaded = chunk_end; on_progress(round(progress))
ChunkAcked(f) ==
    LET ce == ChunkEnd(uploaded[f], ChunkSize(chunk_size_mb), file_size[f])
    IN  /\ hash_' = [hash_ EXCEPT ![f] = HashUpdate(@, chunk[f])]
        /\ uploaded' = [uploaded EXCEPT ![f] = ce]
        /\ progress' = [progress EXCEPT ![f] = Append(@, Round100(ce, file_size[f]))]
        /\ inflight' = [inflight EXCEPT ![f] = @ \ {Pending(f)}]
        /\ pc' = [pc EXCEPT ![f] = "read"]
        /\ UNCHANGED <<envVars, mainVars, reqVars, upload_url, received, file_size, fpos,
                       chunk, local_hash, errors, results>>

\* the session URL answers the PUT f is waiting on
PutResponse(f) ==
    /\ pc[f] = "put_wait"
    /\ \E ok \in BOOLEAN :
         /\ putResp' = [putResp EXCEPT ![f] = Append(@, ok)]
         /\ IF ok THEN ChunkAcked(f) ELSE ChunkFailed(f)
    /\ UNCHANGED <<tokenResp, sessionResp>>

\* ------------------------- ksau_api.upload_file_in_chunks, called directly
\* chunk_size, file_size = stat, uploaded = 0, the file opened
ApiCall ==
    /\ mode = "library"
    /\ pcMain = "start"
    /\ pcMain' = "library"
    /\ upload_url' = [upload_url EXCEPT ![LibFile] = LibUrl]
    /\ file_size' = [file_size EXCEPT ![LibFile] = disk[LibFile]]
    /\ uploaded' = [uploaded EXCEPT ![LibFile] = 0]
    /\ pc' = [pc EXCEPT ![LibFile] = "api_loop"]
    /\ UNCHANGED <<envVars, exit_code, reqVars, received, inflight, fpos, chunk, hash_,
                   local_hash, progress, errors, results, respVars>>

\* while uploaded < file_size: f.seek(uploaded); chunk = f.read(chunk_size); PUT
ApiLoop(f) ==
    /\ pc[f] = "api_loop"
    /\ IF uploaded[f] < file_size[f]
       THEN LET buf == Read(content[f], uploaded[f], ChunkSize(chunk_size_mb))
                r == ContentRange(uploaded[f],
                                  ChunkEnd(uploaded[f], ChunkSize(chunk_size_mb), file_size[f]),
                                  file_size[f], buf)
            IN  /\ fpos' = [fpos EXCEPT ![f] = uploaded[f] + Len(buf)]
                /\ chunk' = [chunk EXCEPT ![f] = buf]
                /\ received' = [received EXCEPT ![upload_url[f]] =
                                    Append(@, [file |-> f, range |-> r])]
                /\ inflight' = [inflight EXCEPT ![f] = @ \cup {r}]
                /\ pc' = [pc EXCEPT ![f] = "api_put_wait"]
       ELSE /\ pc' = [pc EXCEPT ![f] = "api_done"]
            /\ UNCHANGED <<fpos, chunk, received, inflight>>
    /\ UNCHANGED <<envVars, mainVars, reqVars, upload_url, file_size, uploaded, hash_,
                   local_hash, progress, errors, results, respVars>>

\* if not response.ok: raise RuntimeError (propagates to the caller);
\* otherwise uploaded = chunk_end; on_progress(round(progress))
ApiResponse(f) ==
    /\ pc[f] = "api_put_wait"
    /\ inflight' = [inflight EXCEPT ![f] = @ \ {Pending(f)}]
    /\ \E ok \in BOOLEAN :
         /\ putResp' = [putResp EXCEPT ![f] = Append(@, ok)]
         /\ IF ok
            THEN LET ce == ChunkEnd(uploaded[f], ChunkSize(chunk_size_mb), file_size[f])
                 IN  /\ uploaded' = [uploaded EXCEPT ![f] = ce]
                     /\ progress' = [progress EXCEPT ![f] =
                                        Append(@, Round100(ce, file_size[f]))]
                     /\ pc' = [pc EXCEPT ![f] = "api_loop"]
            ELSE /\ pc' = [pc EXCEPT ![f] = "api_raised"]
                 /\ UNCHANGED <<uploaded, progress>>
    /\ UNCHANGED <<envVars, mainVars, reqVars, upload_url, received, file_size, fpos, chunk,
                   hash_, local_hash, errors, results, tokenResp, sessionResp>>

Next ==
    \/ Upload
    \/ WaitReturns
    \/ ApiCall
    \/ \E f \in Files : TokenResponse(f)
    \/ \E f \in Files : SessionResponse(f)
    \/ \E f \in Files : ComputeLocalHash(f)
    \/ \E f \in Files : ReadChunk(f)
    \/ \E f \in Files : PutResponse(f)
    \/ \E f \in Files : ApiLoop(f)
    \/ \E f \in Files : ApiResponse(f)

Spec == Init /\ [][Next]_vars

\* ------------------------------------------------ the loops as functions
RECURSIVE UploadRanges(_, _, _, _)
\* commands/upload.py: the ranges the loop of upload_file_in_chunks sends for a
\* file of fs bytes when every PUT succeeds (up: uploaded, p: read position)
UploadRanges(up, p, cs, fs) ==
    LET n == Min(cs, fs - p)
        ce == ChunkEnd(up, cs, fs)
    IN  IF n <= 0 THEN <<>>
        ELSE <<[start |-> up, end |-> ce - 1, total |-> fs, clen |-> n]>>
             \o UploadRanges(ce, p + n, cs, fs)

RECURSIVE ApiRanges(_, _, _)
\* ksau_api.py: the same for its loop, while uploaded < file_size with a seek
ApiRanges(up, cs, fs) ==
    LET n == Min(cs, fs - up)
        ce == ChunkEnd(up, cs, fs)
    IN  IF ~(up < fs) THEN <<>>
        ELSE <<[start |-> up, end |-> ce - 1, total |-> fs, clen |-> n]>>
             \o ApiRanges(ce, cs, fs)

\* ------------------------------------------------------------- properties
\* the PUTs file f has sent, in the order sent
Sent(f) ==
    IF upload_url[f] = -1 THEN <<>>
    ELSE LET own(e) == e.file = f
             log == SelectSeq(received[upload_url[f]], own)
         IN  [i \in 1..Len(log) |-> log[i].range]

CeilDiv(a, b) == (a + b - 1) \div b

\* rs starts at 0, each range is non-empty and starts where the one before ended
Contiguous(rs) ==
    /\ rs # <<>> => rs[1].start = 0
    /\ \A i \in 1..Len(rs) : rs[i].start <= rs[i].end
    /\ \A i \in 1..(Len(rs) - 1) : rs[i + 1].start = rs[i].end + 1

\* rs covers exactly [0, size)
Covers(rs, size) ==
    /\ Contiguous(rs)
    /\ IF rs = <<>> THEN size = 0 ELSE rs[Len(rs)].end = size - 1

UploadReturned(f) == pc[f] \in {"done", "api_done"}

\* C1: when upload_file_in_chunks (either variant) has returned for a file of
\* S bytes with chunk size C > 0, the Content-Range ranges it sent, in order,
\* cover [0, S) without gap or overlap and there are ceil(S / C) of them; for
\* S = 12,000,000 and C = 5,242,880 the ranges are 0-5242879,
\* 5242880-10485759, 10485760-11999999.
C1_ChunkCoverage ==
    /\ \A f \in Files :
         UploadReturned(f) =>
           /\ Covers(Sent(f), disk[f])
           /\ Len(Sent(f)) = CeilDiv(disk[f], ChunkSize(chunk_size_mb))
    /\ LET want == << <<0, 5242879>>, <<5242880, 10485759>>, <<10485760, 11999999>> >>
           asPairs(rs) == [i \in 1..Len(rs) |-> <<rs[i].start, rs[i].end>>]
       IN  /\ asPairs(UploadRanges(0, 0, 5242880, 12000000)) = want
           /\ asPairs(ApiRanges(0, 5242880, 12000000)) = want

\* a file of a full chunk and a shorter last one has been uploaded by the command
C1_Witness ==
    \E f \in Files :
        /\ pc[f] = "done"
        /\ Len(Sent(f)) = 2
        /\ Sent(f)[2].end - Sent(f)[2].start + 1 < ChunkSize(chunk_size_mb)

RECURSIVE AckedBytes(_, _, _)
\* the bytes of the first n PUTs of rs that were answered 2xx
AckedBytes(rs, resp, n) ==
    IF n = 0 THEN 0
    ELSE AckedBytes(rs, resp, n - 1)
         + (IF resp[n] THEN rs[n].end - rs[n].start + 1 ELSE 0)

\* C2: a file never has more than one chunk PUT in flight, its cursor counts
\* exactly the bytes of the PUTs already answered 2xx (so it moves only after
\* a successful response), and what every session URL has seen is a sequence
\* of ranges that starts at 0 and is ascending and contiguous, whatever the
\* other files' uploads do in between.
C2_SequentialPuts ==
    /\ \A f \in Files :
         /\ Cardinality(inflight[f]) <= 1
         /\ Len(putResp[f]) + Cardinality(inflight[f]) = Len(Sent(f))
         /\ uploaded[f] = AckedBytes(Sent(f), putResp[f], Len(putResp[f]))
    /\ \A u \in Urls : Contiguous([i \in 1..Len(received[u]) |-> received[u][i].range])

\* two files wait for a PUT at the same time, one of them past its first chunk
C2_Witness ==
    \E f, g \in Files :
        /\ f # g
        /\ pc[f] = "put_wait" /\ pc[g] = "put_wait"
        /\ uploaded[f] > 0

HasFailedPut(f) == \E i \in 1..Len(putResp[f]) : ~putResp[f][i]

\* C3: once a chunk PUT of a file was answered non-2xx, that PUT is the last
\* one the file ever sends (no resend, no later chunk), no progress callback
\* was made for it, the upload has failed and no success report exists.
C3_FailedChunkStops ==
    \A f \in Files :
        HasFailedPut(f) =>
          LET rs == Sent(f)
              n == Len(putResp[f])
          IN  /\ \A i \in 1..(n - 1) : putResp[f][i]
              /\ Len(rs) = n
              /\ \A i \in 1..(n - 1) : rs[i].start < rs[n].start
              /\ inflight[f] = {}
              /\ Len(progress[f]) = n - 1
              /\ results[f] = <<>>
              /\ pc[f] \in {"failed", "api_raised"}
              /\ mode = "command" => errors[f] = <<"chunk">>

\* the batch has ended and a file failed at its second chunk
C3_Witness ==
    \E f \in Files :
        /\ pcMain = "exited"
        /\ HasFailedPut(f)
        /\ Len(putResp[f]) = 2

\* every PUT the remote has seen from file f, on any URL
PutsFrom(f) ==
    UNION {{<<u, i>> : i \in {j \in 1..Len(received[u]) : received[u][j].file = f}} : u \in Urls}

\* C4: when the token endpoint answered a file's GET with a non-success
\* status, the file's upload has failed with a printed error, and neither a
\* session creation nor a chunk PUT was ever made for it.
C4_TokenFailureStops ==
    \A f \in Files :
        tokenResp[f] = "error" =>
          /\ pc[f] = "failed"
          /\ errors[f] = <<"token">>
          /\ results[f] = <<>>
          /\ sessionReqs[f] = 0
          /\ sessionResp[f] = "none"
          /\ upload_url[f] = -1
          /\ PutsFrom(f) = {}
          /\ putResp[f] = <<>>

\* the batch has ended, one token fetch was refused and another file completed
C4_Witness ==
    \E f, g \in Files :
        /\ pcMain = "exited"
        /\ tokenResp[f] = "error"
        /\ pc[g] = "done"

NoErrorResponse(f) ==
    /\ tokenResp[f] # "error"
    /\ sessionResp[f] # "error"
    /\ ~HasFailedPut(f)

\* C5: a file's upload ends without success only because of an error response
\* to one of its own requests, never because a sibling failed; so when the
\* batch has ended, every file all of whose requests succeeded is Completed
\* (all chunks sent and acknowledged, one success report), and the failures
\* reported are exactly those of the files that got an error response: one
\* when the chunk upload of exactly one file fails.
C5_FailureIsolation ==
    /\ \A f \in Files : pc[f] \in {"failed", "cancelled"} => ~NoErrorResponse(f)
    /\ pcMain = "exited" =>
         /\ \A f \in Files :
              NoErrorResponse(f) =>
                /\ pc[f] = "done"
                /\ Len(results[f]) = 1
                /\ Covers(Sent(f), disk[f])
                /\ Len(putResp[f]) = Len(Sent(f))
         /\ \A f \in Files : Len(errors[f]) = IF NoErrorResponse(f) THEN 0 ELSE 1
         /\ (Cardinality({f \in Files : HasFailedPut(f)}) = 1
             /\ Cardinality({f \in Files : ~NoErrorResponse(f)}) = 1)
            => /\ Cardinality({f \in Files : pc[f] = "done"}) = NumFiles - 1
               /\ Cardinality({f \in Files : errors[f] # <<>>}) = 1

\* the batch has ended; one file failed at a chunk, every other one completed
\* an upload of at least one chunk
C5_Witness ==
    \E f \in Files :
        /\ pcMain = "exited"
        /\ HasFailedPut(f)
        /\ \A g \in Files \ {f} : pc[g] = "done" /\ Sent(g) # <<>>

\* C6: the command's exit status is 0 only if every file of the batch
\* completed, and non-zero when a file failed.
C6_ExitStatusReflectsOutcome ==
    pcMain = "exited" => (exit_code = 0 <=> \A f \in Files : pc[f] = "done")

NonDecreasing(s) == \A i \in 1..(Len(s) - 1) : s[i] <= s[i + 1]

\* C7: for every upload that has returned, the values passed to the progress
\* callback are non-decreasing and the last call was made with 100.
C7_ProgressEndsAt100 ==
    \A f \in Files :
        UploadReturned(f) =>
          /\ NonDecreasing(progress[f])
          /\ progress[f] # <<>>
          /\ progress[f][Len(progress[f])] = 100

\* what does hold: the callback values are non-decreasing, and the last one is
\* 100 whenever the returned upload made a callback at all (any file of at
\* least one byte)
ProgressMonotone ==
    \A f \in Files :
        /\ NonDecreasing(progress[f])
        /\ UploadReturned(f) =>
             IF disk[f] = 0 THEN progress[f] = <<>>
             ELSE progress[f] # <<>> /\ progress[f][Len(progress[f])] = 100

\* C8: a zero-byte file completes with no chunk PUT, one progress callback
\* with the value 100, and the digest of the empty input.
C8_ZeroByteFile ==
    \A f \in Files :
        (pc[f] = "done" /\ disk[f] = 0) =>
          /\ Sent(f) = <<>>
          /\ progress[f] = <<100>>
          /\ results[f] = <<Digest(HashNew)>>

\* what does hold for a zero-byte file: no PUT, the empty digest, no callback
ZeroByteFileCompletes ==
    \A f \in Files :
        (pc[f] = "done" /\ disk[f] = 0) =>
          /\ Sent(f) = <<>>
          /\ progress[f] = <<>>
          /\ results[f] = <<Digest(HashNew)>>

\* C9: a file has at most one success report, and has one only when every
\* chunk was sent and acknowledged: the cursor equals the file size taken at
\* the start, every PUT was answered 2xx and the ranges cover the file.  A
\* file whose upload stopped early has none.
C9_SuccessOnlyWhenComplete ==
    \A f \in Files :
        /\ Len(results[f]) <= 1
        /\ results[f] # <<>> =>
             /\ pc[f] = "done"
             /\ uploaded[f] = file_size[f]
             /\ file_size[f] = disk[f]
             /\ Covers(Sent(f), disk[f])
             /\ Len(putResp[f]) = Len(Sent(f))
             /\ ~HasFailedPut(f)
             /\ inflight[f] = {}
             /\ errors[f] = <<>>
        /\ (pc[f] = "failed" \/ uploaded[f] < disk[f]) => results[f] = <<>>

\* a two-chunk file has its success report while a sibling stopped at a chunk
C9_Witness ==
    \E f, g \in Files :
        /\ results[f] # <<>>
        /\ Len(Sent(f)) = 2
        /\ HasFailedPut(g)
        /\ pc[g] = "failed"

\* C10: in a batch every file makes its own token request and its own session
\* request (one each), every chunk PUT of a file is received on the session
\* URL that the file's own handler negotiated, and no URL has received PUTs
\* of two files.  (The remote issues a different URL for every session.)
C10_SessionExclusive ==
    /\ \A u \in Urls : \A i \in 1..Len(received[u]) :
         /\ upload_url[received[u][i].file] = u
         /\ received[u][i].file = received[u][1].file
    /\ \A f, g \in Files : (f # g /\ upload_url[f] # -1) => upload_url[f] # upload_url[g]
    /\ mode = "command" =>
         \A f \in Files :
            /\ tokenReqs[f] = IF pcMain = "start" THEN 0 ELSE 1
            /\ sessionReqs[f] = IF tokenResp[f] = "ok" THEN 1 ELSE 0
            /\ upload_url[f] # -1 <=> sessionResp[f] = "ok"
            /\ upload_url[f] # -1 => token[f]

\* two files are both waiting on a chunk PUT, each sent on its own session URL
C10_Witness ==
    \E f, g \in Files :
        /\ f # g
        /\ pc[f] = "put_wait" /\ pc[g] = "put_wait"
        /\ received[upload_url[f]] # <<>> /\ received[upload_url[g]] # <<>>
        /\ \A i \in 1..Len(received[upload_url[f]]) : received[upload_url[f]][i].file = f
        /\ \A i \in 1..Len(received[upload_url[g]]) : received[upload_url[g]][i].file = g

\* ------------------------------------------------------------ interrupts
\* A SIGINT while asyncio.run drives the batch.  Python 3.11+ (the package
\* imports asyncio.TaskGroup) cancels the main task, which is waiting in
\* wait(tasks); asyncio.run then cancels every task that is not done and
\* raises KeyboardInterrupt, which click turns into exit status 1.  Each
\* cancelled task gets CancelledError at its await: a BaseException that is
\* neither KeyboardInterrupt nor SystemExit nor an Exception, so neither
\* except clause of upload_handler runs and nothing is printed for the file.
Interrupt ==
    /\ mode = "command"
    /\ pcMain = "waiting"
    /\ pc' = [f \in Files |-> IF Finished(f) THEN pc[f] ELSE "cancelled"]
    /\ pcMain' = "exited"
    /\ exit_code' = 1
    /\ UNCHANGED <<envVars, reqVars, upload_url, received, inflight, loopVars,
                   errors, results, respVars>>

\* KeyboardInterrupt raised inside the code of one handler (the default
\* SIGINT handler of Python before 3.11, or a second SIGINT): the clause
\* except (KeyboardInterrupt, SystemExit) prints "aborted by user" and raises
\* click.Abort, an Exception, with which the task ends; the loop and the other
\* tasks go on.
KeyboardInterruptIn(f) ==
    /\ mode = "command"
    /\ pcMain = "waiting"
    /\ ~Finished(f)
    /\ Raise(f, "aborted")
    /\ UNCHANGED <<inflight, respVars>>

NextInterrupt ==
    \/ Next
    \/ Interrupt
    \/ \E f \in Files : KeyboardInterruptIn(f)

SpecInterrupt == Init /\ [][NextInterrupt]_vars

\* the batch was ended by an interrupt
Interrupted == pcMain = "exited" /\ exit_code # 0

\* C11: once an interrupt has ended the batch, every file is either Completed
\* (it had completed before the interrupt and keeps that outcome) or has been
\* reported with an error outcome, 'aborted by user' for the files that were
\* still in progress.
C11_InterruptAborts ==
    Interrupted =>
        \A f \in Files :
            \/ pc[f] = "done" /\ results[f] # <<>>
            \/ pc[f] = "failed" /\ errors[f] # <<>>
            \/ "aborted" \in {errors[f][i] : i \in 1..Len(errors[f])}

\* what does hold: after the interrupt no file is in progress any more, and a
\* Completed file is still Completed
InterruptStopsUploads ==
    Interrupted =>
        \A f \in Files : Finished(f) /\ (results[f] # <<>> => pc[f] = "done")

\* ------------------------------------------------- digests, any content
\* The upload of one file with arbitrary bytes, and the same upload run a
\* second time on the unchanged file.  The other files of the batch are empty
\* and their responses stay outstanding.
Runs == 2            \* times the upload of the file is run

\* every byte string of at most n bytes
AllBytes(n) == UNION {[1..k -> 0..(ByteVals - 1)] : k \in 0..n}

InitHash ==
    /\ mode = "command"
    /\ chunk_size_mb \in 1..MaxChunkMb
    /\ \E bytes \in AllBytes(MaxSize) :
         content = [f \in Files |-> IF f = LibFile THEN bytes ELSE <<>>]
    /\ disk = [f \in Files |-> Len(content[f])]
    /\ remote_path = DefaultRemotePath
    /\ upload_root_path = DefaultRootPath
    /\ InitLocals

\* the command is invoked again for file f after its upload completed: a new
\* handler with new locals asks for a token
RunAgain(f) ==
    /\ pc[f] = "done"
    /\ Len(results[f]) < Runs
    /\ pc' = [pc EXCEPT ![f] = "token_wait"]
    /\ tokenReqs' = [tokenReqs EXCEPT ![f] = @ + 1]
    /\ token' = [token EXCEPT ![f] = FALSE]
    /\ upload_url' = [upload_url EXCEPT ![f] = -1]
    /\ uploaded' = [uploaded EXCEPT ![f] = 0]
    /\ fpos' = [fpos EXCEPT ![f] = 0]
    /\ chunk' = [chunk EXCEPT ![f] = <<>>]
    /\ hash_' = [hash_ EXCEPT ![f] = HashNew]
    /\ local_hash' = [local_hash EXCEPT ![f] = <<>>]
    /\ progress' = [progress EXCEPT ![f] = <<>>]
    /\ tokenResp' = [tokenResp EXCEPT ![f] = "none"]
    /\ sessionResp' = [sessionResp EXCEPT ![f] = "none"]
    /\ putResp' = [putResp EXCEPT ![f] = <<>>]
    /\ UNCHANGED <<envVars, mainVars, sessionReqs, session_path, received, inflight,
                   file_size, errors, results>>

NextHash ==
    \/ Upload
    \/ TokenResponse(LibFile)
    \/ SessionResponse(LibFile)
    \/ ComputeLocalHash(LibFile)
    \/ ReadChunk(LibFile)
    \/ PutResponse(LibFile)
    \/ RunAgain(LibFile)

SpecHash == InitHash /\ [][NextHash]_vars

\* the Content-Range values the session URL of f has received so far
RangesAt(f) == [i \in 1..Len(received[NewSessionUrl(f)]) |-> received[NewSessionUrl(f)][i].range]

\* C12: for every content and chunk size, the digest of the pre-upload pass
\* (320 KiB blocks) equals the digest the upload pass (chunk-size blocks)
\* returns; and a second upload of the unchanged file returns the same digest
\* and sends the same sequence of Content-Range values as the first.
C12_DigestIndependentOfBlocks ==
    \A f \in Files :
        /\ pc[f] = "done" => results[f][Len(results[f])] = local_hash[f]
        /\ pc[f] = "done" =>
              LET runs == Len(results[f])
                  n == Len(RangesAt(f)) \div runs
              IN  /\ \A r \in 1..runs : results[f][r] = results[f][1]
                  /\ Len(RangesAt(f)) = runs * n
                  /\ \A j \in 1..Len(RangesAt(f)) :
                         RangesAt(f)[j] = RangesAt(f)[((j - 1) % n) + 1]

\* a file of the largest size with bytes that are not all equal, uploaded
\* twice in chunks larger than the hashing block
C12_Witness ==
    /\ Len(results[LibFile]) = Runs
    /\ Len(content[LibFile]) = MaxSize
    /\ content[LibFile][1] # content[LibFile][MaxSize]
    /\ ChunkSize(chunk_size_mb) > HashBlock
    /\ Len(RangesAt(LibFile)) >= 4

\* ------------------------------------------------------------ fan-out
\* the files whose upload has started and has not ended
InProgress == {f \in Files : pc[f] \in {"token_wait", "session_wait", "hash_read",
                                         "read", "put_wait"}}

\* a limit that does not grow with the batch is, for a batch larger than it,
\* smaller than the number of files
ConcurrencyLimit == NumFiles - 1

Stage(p) ==
    CASE p = "idle" -> 0
      [] p = "token_wait" -> 1
      [] p = "session_wait" -> 2
      [] p = "hash_read" -> 3
      [] p \in {"read", "put_wait"} -> 4
      [] OTHER -> 5

Terminal(f) == pc[f] \in {"done", "failed"}

\* what the remote has seen of f, and what has been reported for f
Footprint(f) == <<tokenReqs[f], sessionReqs[f], Cardinality(PutsFrom(f)),
                  errors[f], results[f]>>

LifecycleInv ==
    mode = "command" =>
        \A f \in Files :
            /\ sessionReqs[f] > 0 => tokenResp[f] = "ok"
            /\ Stage(pc[f]) \in {3, 4} \/ pc[f] = "done" \/ PutsFrom(f) # {}
                  => tokenResp[f] = "ok" /\ sessionResp[f] = "ok"
            /\ sessionResp[f] = "error"
                  => pc[f] = "failed" /\ PutsFrom(f) = {} /\ errors[f] = <<"session">>

LifecycleStep ==
    mode = "command" =>
        \A f \in Files :
            /\ Stage(pc'[f]) >= Stage(pc[f])
            /\ Stage(pc'[f]) <= Stage(pc[f]) + 1 \/ pc'[f] = "failed"
            /\ Terminal(f) => pc'[f] = pc[f] /\ Footprint(f)' = Footprint(f)

\* C14: each file goes Idle -> TokenAcquired -> SessionCreated -> Uploading ->
\* Completed, one stage at a time and never backwards, or to Failed; no chunk
\* PUT is sent before the session was created; a failed session creation ends
\* in Failed with no PUT at all; and after Completed or Failed the file's
\* state, requests and reports never change again.
C14_Lifecycle == [](LifecycleInv) /\ [][LifecycleStep]_vars

\* one file Failed at session creation without a PUT while another went all
\* the way to Completed through at least one chunk
C14_Witness ==
    /\ pcMain = "exited"
    /\ \E f, g \in Files :
         /\ sessionResp[f] = "error" /\ pc[f] = "failed" /\ PutsFrom(f) = {}
         /\ pc[g] = "done" /\ PutsFrom(g) # {}

\* ------------------------------------------------------------ progress
\* the number of f's PUTs answered 2xx
Acked(f) == Cardinality({i \in 1..Len(putResp[f]) : putResp[f][i]})

\* the value of the cursor after the i-th PUT of f was acknowledged
CursorAfter(f, i) == Sent(f)[i].end + 1

\* C15: in the command's upload loop the progress callback has been invoked
\* exactly once per acknowledged chunk and never for a failed PUT; the i-th
\* value is round(bytes_uploaded / file_size * 100) for the cursor after the
\* i-th acknowledgement and lies in [0, 100]; the cursor never decreases and
\* never exceeds the file size.
C15_ProgressPerAck ==
    mode = "command" =>
        \A f \in Files :
            /\ Len(progress[f]) = Acked(f)
            /\ \A i \in 1..Len(progress[f]) :
                  /\ putResp[f][i]
                  /\ progress[f][i] = Round100(CursorAfter(f, i), disk[f])
                  /\ progress[f][i] \in 0..100
                  /\ CursorAfter(f, i) <= disk[f]
                  /\ i > 1 => CursorAfter(f, i - 1) <= CursorAfter(f, i)
            /\ uploaded[f] = (IF Acked(f) = 0 THEN 0 ELSE CursorAfter(f, Acked(f)))
            /\ uploaded[f] <= disk[f]

\* a file whose first two chunks were acknowledged and whose third PUT failed
C15_Witness ==
    /\ mode = "command"
    /\ \E f \in Files :
         /\ putResp[f] = <<TRUE, TRUE, FALSE>>
         /\ Len(progress[f]) = 2
         /\ pc[f] = "failed"

\* ------------------------------------------------------------ hashing
\* C16: in the command's upload loop the accumulator has been given exactly
\* the bytes of the acknowledged chunks, in file order and each once: the
\* bytes it was given are the file's bytes [0, bytes_uploaded), so a chunk
\* whose PUT failed is not among them, and when the upload has Completed they
\* are the whole file, whose digest is the one returned.
C16_HashFedAckedPrefix ==
    mode = "command" =>
        \A f \in Files :
            /\ hash_[f].fed = SubSeq(content[f], 1, uploaded[f])
            /\ hash_[f] = HashUpdate(HashNew, hash_[f].fed)
            /\ HasFailedPut(f) =>
                  /\ chunk[f] = SubSeq(content[f], uploaded[f] + 1, uploaded[f] + Len(chunk[f]))
                  /\ Len(hash_[f].fed) + Len(chunk[f]) <= disk[f]
            /\ pc[f] = "done" =>
                  /\ hash_[f].fed = content[f]
                  /\ results[f] = <<Digest(HashUpdate(HashNew, content[f]))>>

\* one file Completed after several chunks, another stopped at a failed PUT
\* after an acknowledged one
C16_Witness ==
    /\ mode = "command"
    /\ \E f, g \in Files :
         /\ pc[f] = "done" /\ Len(putResp[f]) >= 2
         /\ putResp[g] = <<TRUE, FALSE>> /\ hash_[g].fed # <<>>

\* ------------------------------------------------------ paths, any input
\* The start of a batch for every upload-root path and remote path of at most
\* MaxPathLen characters, up to the responses to the session requests; the
\* files themselves are empty.
MaxPathLen == 3

PathChars == {"/", "a"}

AllPaths(n) == UNION {[1..k -> PathChars] : k \in 0..n}

InitPath ==
    /\ mode = "command"
    /\ chunk_size_mb \in 1..MaxChunkMb
    /\ disk = [f \in Files |-> 0]
    /\ content = [f \in Files |-> <<>>]
    /\ remote_path \in AllPaths(MaxPathLen)
    /\ upload_root_path \in AllPaths(MaxPathLen)
    /\ InitLocals

NextPath ==
    \/ Upload
    \/ \E f \in Files : TokenResponse(f)
    \/ \E f \in Files : SessionResponse(f)

SpecPath == InitPath /\ [][NextPath]_vars

\* str neither starts with the separator nor holds two separators in a row
SingleSlashes(str) ==
    /\ str # <<>> => Head(str) # "/"
    /\ \A i \in 1..(Len(str) - 1) : ~(str[i] = "/" /\ str[i + 1] = "/")

\* C17: for every upload-root path and remote directory, the path put between
\* 'root:/' and ':/createUploadSession' in the session URL never starts with
\* '/' and never contains '//'.
C17_PathSingleSlashes ==
    \A f \in Files : sessionReqs[f] > 0 => SingleSlashes(session_path[f])

\* what does hold: the path is clean when the upload root names a directory
\* and neither input holds two separators in a row
PathCleanForCleanInputs ==
    \A f \in Files :
        (/\ sessionReqs[f] > 0
         /\ Strip(upload_root_path) # <<>>
         /\ SingleSlashes(Strip(upload_root_path))
         /\ SingleSlashes(Strip(remote_path)))
        => SingleSlashes(session_path[f])

\* ------------------------------- commands/retarded_graph.py: upload_async
GraphChunk == 1      \* model bytes per read of upload_async (327680 in the code)
SemaphoreLimit == 2  \* Semaphore(2)

inputVars == <<mode, chunk_size_mb, disk, content, remote_path, upload_root_path>>
uploadVars == <<pc, reqVars, upload_url, received, inflight, loopVars, errors, results,
                respVars>>

InitGraph ==
    /\ mode = "graph"
    /\ chunk_size_mb = 1
    /\ \E bytes \in AllBytes(MaxSize) :
         content = [f \in Files |-> IF f = LibFile THEN bytes ELSE <<>>]
    /\ disk = [f \in Files |-> Len(content[f])]
    /\ remote_path = DefaultRemotePath
    /\ upload_root_path = DefaultRootPath
    /\ InitLocals

\* upload: event_loop.run_until_complete(upload_async(file, folder, remote)).
\* The file exists and is a file.  get_graph_client or create_upload_session
\* may raise, which ends the command with a traceback; otherwise the file is
\* opened, the TaskGroup and the ClientSession are entered, Semaphore(2) is
\* made and the first read is awaited.
GraphUpload ==
    /\ mode = "graph"
    /\ pcMain = "start"
    /\ \E ok \in BOOLEAN :
         IF ok
         THEN /\ gpc' = "reading"
              /\ gsem' = SemaphoreLimit
              /\ pcMain' = "waiting"
              /\ UNCHANGED exit_code
         ELSE /\ gpc' = "raised"
              /\ pcMain' = "exited"
              /\ exit_code' = 1
              /\ UNCHANGED gsem
    /\ UNCHANGED <<inputVars, uploadVars, gpos, gtasks>>

\* while chunk := await f.read(327680): tg.create_task(upload_chunk(...));
\* at the end of the file the async with block is left
GraphRead ==
    /\ gpc = "reading"
    /\ LET buf == Read(content[LibFile], gpos, GraphChunk)
       IN  IF buf # <<>>
           THEN /\ gtasks' = Append(gtasks, [chunk |-> buf, state |-> "pending",
                                              put |-> "none"])
                /\ gpos' = gpos + Len(buf)
                /\ UNCHANGED gpc
           ELSE /\ gpc' = "joining"
                /\ UNCHANGED <<gtasks, gpos>>
    /\ UNCHANGED <<inputVars, mainVars, uploadVars, gsem>>

\* upload_chunk, task i: async with semaphore (free, so taken without
\* waiting); print; session.put(upload_url, data=chunk) builds the request
\* coroutine, which is neither awaited nor entered, so no request leaves; the
\* semaphore is released and the task is done.
GraphUploadChunk(i) ==
    /\ gtasks[i].state = "pending"
    /\ gsem > 0
    /\ gtasks' = [gtasks EXCEPT ![i] = [@ EXCEPT !.state = "done", !.put = "never_awaited"]]
    /\ UNCHANGED <<inputVars, mainVars, uploadVars, gpc, gpos, gsem>>

\* the TaskGroup's exit waits for every task it created; return 0;
\* sys.exit(exit_code)
GraphReturn ==
    /\ gpc = "joining"
    /\ \A i \in 1..Len(gtasks) : gtasks[i].state = "done"
    /\ gpc' = "returned"
    /\ pcMain' = "exited"
    /\ exit_code' = 0
    /\ UNCHANGED <<inputVars, uploadVars, gpos, gtasks, gsem>>

NextGraph ==
    \/ GraphUpload
    \/ GraphRead
    \/ \E i \in 1..Len(gtasks) : GraphUploadChunk(i)
    \/ GraphReturn

SpecGraph == InitGraph /\ [][NextGraph]_vars

\* the PUTs the upload session's URL has received
GraphReceived == UNION {{<<u, i>> : i \in 1..Len(received[u])} : u \in Urls}

\* C18: when upload_async has returned 0, every chunk it read has been PUT
\* and the PUT's completion awaited; and at no time are more than two PUTs in
\* flight.
C18_ChunksSentBeforeReturn ==
    /\ Cardinality(UNION {inflight[f] : f \in Files}) <= SemaphoreLimit
    /\ gpc = "returned" =>
          /\ Cardinality(GraphReceived) = Len(gtasks)
          /\ \A i \in 1..Len(gtasks) : gtasks[i].put = "awaited"

\* what does hold: upload_async reads the whole file and returns 0 only when
\* every task has run, but no PUT ever leaves
GraphNothingSent ==
    /\ GraphReceived = {}
    /\ gpc = "returned" =>
          /\ gpos = disk[LibFile]
          /\ \A i \in 1..Len(gtasks) : gtasks[i].put = "never_awaited"

\* ------------------------------------------------------------ termination
\* Every request eventually gets a response and the event loop eventually
\* runs a coroutine that can go on: a step that can be taken eventually is.
\* The runs start where those of Spec start; files beyond the second, when the
\* batch has more, are empty, which keeps the graph searched for cycles small.
LiveInit == Init /\ \A f \in Files \ {1, 2} : disk[f] = 0

LiveSpec == LiveInit /\ [][Next]_vars /\ WF_vars(Next)

\* f has reached one terminal outcome, and only one is reported for it
OneOutcome(f) ==
    \/ pc[f] = "done" /\ Len(results[f]) = 1 /\ errors[f] = <<>>
    \/ pc[f] = "failed" /\ Len(errors[f]) = 1 /\ results[f] = <<>>

\* C19: for every file size and chunk size, if every request eventually gets
\* a response, each file of the batch eventually reaches exactly one terminal
\* outcome and keeps it, the batch command eventually returns, and it has
\* returned only when every file has its terminal outcome; the library's
\* upload loop likewise eventually returns or raises.
Settled ==
    IF mode = "command"
    THEN pcMain = "exited" /\ \A f \in Files : OneOutcome(f)
    ELSE pc[LibFile] \in {"api_done", "api_raised"}

C19_Terminates ==
    /\ [](pcMain = "exited" => \A f \in Files : OneOutcome(f))
    /\ <>[]Settled

\* the batch has returned after every file, each of the largest size, was
\* uploaded in the smallest chunks
C19_Witness ==
    /\ pcMain = "exited"
    /\ chunk_size_mb = 1
    /\ \A f \in Files : disk[f] = MaxSize /\ pc[f] = "done" /\ Len(putResp[f]) = MaxSize

\* ------------------------------------------------------------ headers
\* C20: for every chunk PUT either loop sends for an unmodified file, the
\* length of the Content-Range range (end - start + 1) equals Content-Length,
\* which is the length of the buffer sent, the range's total is the file size,
\* and the buffer holds the file's bytes of that range; this includes a final
\* chunk shorter than the chunk size.
C20_RangeMatchesBuffer ==
    /\ \A u \in Urls : \A i \in 1..Len(received[u]) :
          LET r == received[u][i].range
          IN  /\ r.end - r.start + 1 = r.clen
              /\ r.clen \in 1..ChunkSize(chunk_size_mb)
              /\ r.total = disk[received[u][i].file]
    /\ \A f \in Files : \A r \in inflight[f] :
          /\ r.clen = Len(chunk[f])
          /\ chunk[f] = SubSeq(content[f], r.start + 1, r.end + 1)

\* the final chunk of a file, shorter than the chunk size, is in flight
C20_Witness ==
    \E f \in Files : \E r \in inflight[f] :
        /\ r.clen < ChunkSize(chunk_size_mb)
        /\ r.start > 0
        /\ r.end = disk[f] - 1

====
